---- MODULE Spec2Model ----
(***************************************************************************)
(* Model of the Energy Forecasting API (src/src/api/app.py): the           *)
(* ModelLoader fallback chain that runs at import time, and the request    *)
(* handlers /health, /predict, /info and /metrics that read its result.    *)
(*                                                                         *)
(* Text values (Python str) that are sliced or compared with a slice are   *)
(* sequences of one-character strings, so that run_id[:8] is computed and  *)
(* not assumed.                                                            *)
(***************************************************************************)
EXTENDS Integers, Sequences, FiniteSets, TLC

VARIABLES
    pc,             \* position of the module-level startup code (lines 204-207)
    model,          \* model_loader.model
    model_version,  \* model_loader.model_version
    calls,          \* collaborator calls made by load_model, in order
    inflight,       \* per worker thread: the /predict call blocked in model.predict
    last            \* the most recent request/response exchange

vars == <<pc, model, model_version, calls, inflight, last>>

----------------------------------------------------------------------------
(* Bounds of the model *)

MaxRows == 2        \* most rows of a rectangular matrix in a request
NumWorkers == 2     \* request-handling threads

(* Program constants *)

VersionPrefixLen == 8   \* run_id[:8]
OutputSteps == 24       \* np.random.randn(sequences.shape[0], 24)

Workers == 1..NumWorkers

----------------------------------------------------------------------------
(* Text *)

StrNone == <<"n", "o", "n", "e">>
StrProduction == <<"p", "r", "o", "d", "u", "c", "t", "i", "o", "n">>
StrDummy == <<"d", "u", "m", "m", "y">>

\* MLflow run ids are uuid4().hex: 32 hexadecimal characters.  These two
\* share their first 8 characters.
RunIds ==
    { <<"3","f","a","8","5","f","6","4","5","7","1","7","4","5","6","2",
        "b","3","f","c","2","c","9","6","3","f","6","6","a","f","a","6">>,
      <<"3","f","a","8","5","f","6","4","0","0","0","0","4","5","6","2",
        "b","3","f","c","2","c","9","6","3","f","6","6","a","f","a","7">> }

NoRun == <<>>

\* mutant of Prefix: the slice forgotten, the whole run id used as the label
PrefixWhole(s, n) == s

\* s[:n] of a Python str
Prefix(s, n) == SubSeq(s, 1, IF Len(s) < n THEN Len(s) ELSE n)

----------------------------------------------------------------------------
(* Exceptions: each class with the classes an `except` clause matches it by *)

Mro(e) ==
    CASE e = "ValueError"           -> {"ValueError", "Exception"}
      [] e = "KeyError"             -> {"KeyError", "LookupError", "Exception"}
      [] e = "TypeError"            -> {"TypeError", "Exception"}
      [] e = "MlflowException"      -> {"MlflowException", "Exception"}
      [] e = "ConnectionError"      -> {"ConnectionError", "OSError", "Exception"}
      [] e = "BadRequest"           -> {"BadRequest", "HTTPException", "Exception"}
      [] e = "UnsupportedMediaType" -> {"UnsupportedMediaType", "HTTPException", "Exception"}
      [] OTHER                      -> {e, "Exception"}

\* What the registry collaborator raises when a load or a search fails.
RegistryErrors == {"MlflowException", "ConnectionError"}

----------------------------------------------------------------------------
(* ModelLoader *)

NoneModel == "None"
ProductionModel == "models:/energy_forecasting_model/Production"
RunModel == "runs:/<run_id>/model"

\* mutant of TierCatches: only the registry's own exception class is caught
TierCatchesMlflowOnly(e) == "MlflowException" \in Mro(e)

\* `except Exception as e` of load_production_model and load_latest_model
TierCatches(e) == "Exception" \in Mro(e)

Call(op, ok, run) == [op |-> op, ok |-> ok, run |-> run]

\* mutant of LoadProductionModel: load_model() ignores the True it returns
\* and goes on to the next tier
LoadProductionModelFallsThrough ==
    /\ pc = "load_production"
    /\ \/ /\ model' = ProductionModel
          /\ model_version' = StrProduction
          /\ calls' = Append(calls, Call("load_production", TRUE, NoRun))
          /\ pc' = "load_latest"
       \/ \E e \in RegistryErrors :
          /\ calls' = Append(calls, Call("load_production", FALSE, NoRun))
          /\ pc' = IF TierCatches(e) THEN "load_latest" ELSE "crashed"
          /\ UNCHANGED <<model, model_version>>
    /\ UNCHANGED <<inflight, last>>

\* load_production_model(), called from load_model() line 189, up to the
\* assignment of self.model (line 132) or to its `return False`
LoadProductionModel ==
    /\ pc = "load_production"
    /\ \/ /\ model' = ProductionModel
          /\ calls' = Append(calls, Call("load_production", TRUE, NoRun))
          /\ pc' = "label_production"
          /\ UNCHANGED model_version
       \/ \E e \in RegistryErrors :
          /\ calls' = Append(calls, Call("load_production", FALSE, NoRun))
          /\ pc' = IF TierCatches(e) THEN "load_latest" ELSE "crashed"
          /\ UNCHANGED <<model, model_version>>
    /\ UNCHANGED <<inflight, last>>

\* load_production_model() from line 133 to `return True`, and load_model()'s
\* return at line 190
LabelProductionModel ==
    /\ pc = "label_production"
    /\ model_version' = StrProduction
    /\ pc' = "serving"
    /\ UNCHANGED <<model, calls, inflight, last>>

\* load_latest_model(), called from load_model() line 194, up to the
\* assignment of self.model (line 162) or to its `return False`
LoadLatestModel ==
    /\ pc = "load_latest"
    /\ \/ \E e \in RegistryErrors :         \* search_runs raises
          /\ calls' = Append(calls, Call("search_runs", FALSE, NoRun))
          /\ pc' = IF TierCatches(e) THEN "dummy_fallback" ELSE "crashed"
          /\ UNCHANGED <<model, model_version>>
       \/ /\ calls' = Append(calls, Call("search_runs", TRUE, NoRun))   \* runs == []
          /\ pc' = "dummy_fallback"
          /\ UNCHANGED <<model, model_version>>
       \/ \E run_id \in RunIds :            \* runs[0].info.run_id
          \/ /\ model' = RunModel
             /\ calls' = calls \o << Call("search_runs", TRUE, run_id),
                                     Call("load_run", TRUE, run_id) >>
             /\ pc' = "label_latest"
             /\ UNCHANGED model_version
          \/ \E e \in RegistryErrors :
             /\ calls' = calls \o << Call("search_runs", TRUE, run_id),
                                     Call("load_run", FALSE, run_id) >>
             /\ pc' = IF TierCatches(e) THEN "dummy_fallback" ELSE "crashed"
             /\ UNCHANGED <<model, model_version>>
    /\ UNCHANGED <<inflight, last>>

\* load_latest_model() from line 163 to `return True`, and load_model()'s
\* return at line 195; run_id is the run whose artifact was just loaded
LabelLatestModel ==
    /\ pc = "label_latest"
    /\ model_version' = Prefix(calls[Len(calls)].run, VersionPrefixLen)
    /\ pc' = "serving"
    /\ UNCHANGED <<model, calls, inflight, last>>

\* the final fallback of load_model(), lines 197-200
DummyFallback ==
    /\ pc = "dummy_fallback"
    /\ model_version' = StrDummy
    /\ pc' = "serving"
    /\ UNCHANGED <<model, calls, inflight, last>>

----------------------------------------------------------------------------
(* JSON values: a leaf of some kind, or a list of values *)

Leaf(k) == [k |-> k, items |-> <<>>]
List(items) == [k |-> "list", items |-> items]

Num == Leaf("num")          \* a JSON number
NumStr == Leaf("numstr")    \* a JSON string that float() parses, "1.5"
Str == Leaf("str")          \* a JSON string that float() rejects, "abc"
Null == Leaf("null")        \* JSON null, Python None
Obj == Leaf("obj")          \* a JSON object, Python dict

Row(L) == List([i \in 1..L |-> Num])
Matrix(N, L) == List([i \in 1..N |-> Row(L)])

\* rectangular numeric matrices: every row count up to MaxRows (N = 0 is the
\* empty list of rows), and one row of no elements, [[]]
RectMatrices == { Matrix(N, 2) : N \in 0..MaxRows } \cup { Matrix(1, 0) }

OtherSequences ==
    { List(<<Row(2), Row(3)>>),         \* ragged rows
      List(<<Num, Row(1)>>),            \* mixed depth
      Row(2),                           \* 1-D
      List(<<Matrix(1, 2)>>),           \* 3-D
      Num, NumStr, Str, Null, Obj }     \* scalars
    \cup { List(<<List(<<k>>)>>) : k \in {NumStr, Str, Null, Obj} }

SequencesValues == RectMatrices \cup OtherSequences

(* Request bodies of POST /predict: a content type, the kind of the parsed  *)
(* top-level value, and for a mapping its keys and the value of `sequences` *)

Body(ctype, top, keys, seq) == [ctype |-> ctype, top |-> top, keys |-> keys, seq |-> seq]

NoBody == Body("none", "empty", {}, Null)

NonMappingTops ==
    { "empty",          \* no bytes at all
      "garbage",        \* bytes that are not JSON
      "null", "zero", "number", "emptystr", "str", "str_sequences",
      "emptylist", "list" }

Bodies ==
    { Body("json", t, {}, Null) : t \in NonMappingTops }
    \cup { Body("json", "map", ks, Null) : ks \in { {}, {"other"} } }
    \cup { Body("json", "map", {"sequences"}, v) : v \in SequencesValues }
    \cup { Body("json", "map", {"sequences", "other"}, Matrix(1, 2)),
           Body("other", "empty", {}, Null),
           Body("other", "map", {"sequences"}, Matrix(1, 2)) }

----------------------------------------------------------------------------
(* numpy: np.array(value, dtype=np.float32) *)

Ragged == <<-1>>

RECURSIVE Shape(_)
Shape(v) ==
    IF v.k # "list" THEN <<>>
    ELSE IF Len(v.items) = 0 THEN <<0>>
    ELSE LET shapes == { Shape(v.items[i]) : i \in 1..Len(v.items) }
         IN  IF Cardinality(shapes) = 1 /\ Ragged \notin shapes
             THEN <<Len(v.items)>> \o (CHOOSE s \in shapes : TRUE)
             ELSE Ragged

RECURSIVE Flatten(_)
Flatten(v) ==
    IF v.k # "list" THEN <<v.k>>
    ELSE IF Len(v.items) = 0 THEN <<>>
    ELSE Flatten(v.items[1]) \o Flatten(List(Tail(v.items)))

\* float(x) of one element: "" when it converts, else the exception raised
FloatError(k) ==
    CASE k = "str" -> "ValueError"
      [] k = "obj" -> "TypeError"
      [] OTHER     -> ""        \* num; numstr parses; None becomes nan

\* the exception np.array raises, "" when it returns an array
NpArrayError(v) ==
    IF Shape(v) = Ragged THEN "ValueError"     \* inhomogeneous shape
    ELSE LET ks == Flatten(v)
             bad == { i \in 1..Len(ks) : FloatError(ks[i]) # "" }
         IN  IF bad = {} THEN ""
             ELSE FloatError(ks[CHOOSE i \in bad : \A j \in bad : i <= j])

----------------------------------------------------------------------------
(* Python on the parsed body: truthiness, `in`, subscript *)

\* bool(data)
Truthy(b) ==
    CASE b.top \in {"null", "zero", "emptystr", "emptylist"} -> FALSE
      [] b.top = "map" -> b.keys # {}
      [] OTHER -> TRUE

\* the exception `'sequences' not in data` raises, "" when it evaluates
ContainsError(b) == IF b.top = "number" THEN "TypeError" ELSE ""

\* 'sequences' in data
Contains(b) ==
    CASE b.top = "map" -> "sequences" \in b.keys
      [] b.top = "str_sequences" -> TRUE
      [] OTHER -> FALSE

\* the exception data['sequences'] raises, "" when it evaluates
SubscriptError(b) == IF b.top = "map" THEN "" ELSE "TypeError"

\* request.get_json(): the exception it raises, "" when it returns a value.
\* With the pinned flask==2.3.3 (module docstring, line 23) a content type
\* that is not JSON raises UnsupportedMediaType and a body that json.loads
\* rejects, the empty body included, raises BadRequest; None is returned
\* only for the body `null`.
GetJsonError(b) ==
    IF b.ctype # "json" THEN "UnsupportedMediaType"
    ELSE IF b.top \in {"empty", "garbage"} THEN "BadRequest"
    ELSE ""

----------------------------------------------------------------------------
(* Responses *)

NoVersion == <<>>

Response(endpoint, body, status, error_type, version, path, stage, exc, rows, cols) ==
    [ endpoint |-> endpoint, body |-> body, status |-> status,
      error_type |-> error_type, model_version |-> version,
      path |-> path,        \* "model", "dummy" or "" : who produced predictions
      stage |-> stage,      \* where the request ended
      exc |-> exc,          \* the exception that ended it, "" without
      rows |-> rows, cols |-> cols ]    \* shape of `predictions`, -1 without

NoResponse == Response("none", NoBody, 0, "", NoVersion, "", "", "", -1, -1)

ErrorResponse(b, status, error_type, path, stage, exc) ==
    Response("predict", b, status, error_type, NoVersion, path, stage, exc, -1, -1)

\* the except clauses of predict(), lines 367-389
HandleException(b, e, path, stage) ==
    IF "ValueError" \in Mro(e) THEN ErrorResponse(b, 400, "ValueError", path, stage, e)
    ELSE IF "KeyError" \in Mro(e) THEN ErrorResponse(b, 400, "KeyError", path, stage, e)
    ELSE ErrorResponse(b, 500, e, path, stage, e)

\* the response block of predict(), lines 359-365
Success(b, path, rows, cols) ==
    Response("predict", b, 200, "", model_version, path, "response", "", rows, cols)

----------------------------------------------------------------------------
(* predict(): validation, lines 308-334 *)

Outcome(t, exc, error_type, shape) ==
    [t |-> t, exc |-> exc, error_type |-> error_type, shape |-> shape]

\* t = "raise": exc was raised; "reject": a 400 was returned; "ok": the matrix
\* `sequences` of the given shape was produced
Validate(b) ==
    IF GetJsonError(b) # "" THEN Outcome("raise", GetJsonError(b), "", <<>>)
    ELSE IF ~Truthy(b) THEN Outcome("reject", "", "MissingData", <<>>)
    ELSE IF ContainsError(b) # "" THEN Outcome("raise", ContainsError(b), "", <<>>)
    ELSE IF ~Contains(b) THEN Outcome("reject", "", "MissingField", <<>>)
    ELSE IF SubscriptError(b) # "" THEN Outcome("raise", SubscriptError(b), "", <<>>)
    ELSE IF NpArrayError(b.seq) # "" THEN Outcome("raise", NpArrayError(b.seq), "", <<>>)
    ELSE IF Len(Shape(b.seq)) # 2 THEN Outcome("reject", "", "InvalidDimension", <<>>)
    ELSE Outcome("ok", "", "", Shape(b.seq))

\* mutant of DummyPredictions: sequences.shape[1] taken for the row count
DummyPredictionsByColumns(shape) == <<shape[2], OutputSteps>>

\* np.random.randn(sequences.shape[0], 24).tolist(): its rows and columns
DummyPredictions(shape) == <<shape[1], OutputSteps>>

\* mutant of UseModel: the test of model_loader.model forgotten
UseModelAlways(shape) == shape[1] > 0

\* `model_loader.model and len(sequences) > 0`
UseModel(shape) == model # NoneModel /\ shape[1] > 0

\* predict() is a function of the body and the loader's state: its validation
\* outcome for each body
Validated == [b \in Bodies |-> Validate(b)]

----------------------------------------------------------------------------
(* What model.predict(sequences) can do: return an array of some shape,     *)
(* return an object with no tolist() that jsonify rejects, or raise         *)

ModelRaises == {"ValueError", "KeyError", "MlflowException"}

ModelResults ==
    [kind : {"ndarray"}, rows : 0..MaxRows, cols : {OutputSteps}, exc : {""}]
    \cup [kind : {"dataframe"}, rows : {-1}, cols : {-1}, exc : {""}]
    \cup [kind : {"raise"}, rows : {-1}, cols : {-1}, exc : ModelRaises]

----------------------------------------------------------------------------
(* Request handlers *)

\* mutant of Serving: load_model() is left running in the background and the
\* routes are served from the start
ServingWhileLoading == pc # "crashed"

\* The module-level code calls model_loader.load_model() (line 207) before any
\* route is registered (line 213 on) and before app.run (line 495): a handler
\* runs only in a process in which load_model() has returned.
Serving == pc = "serving"

\* predict() up to the call of model.predict, or to its response when the
\* handle is not called
PredictBegin(w, b) ==
    /\ Serving
    /\ inflight[w] = NoBody
    /\ LET v == Validated[b] IN
       CASE v.t = "raise" ->
              /\ last' = HandleException(b, v.exc, "", "validation")
              /\ UNCHANGED inflight
         [] v.t = "reject" ->
              /\ last' = ErrorResponse(b, 400, v.error_type, "", "validation", "")
              /\ UNCHANGED inflight
         [] v.t = "ok" /\ UseModel(v.shape) ->
              /\ inflight' = [inflight EXCEPT ![w] = b]
              /\ UNCHANGED last
         [] OTHER ->
              /\ last' = Success(b, "dummy", DummyPredictions(v.shape)[1],
                                 DummyPredictions(v.shape)[2])
              /\ UNCHANGED inflight
    /\ UNCHANGED <<pc, model, model_version, calls>>

\* mutant of PredictFinish: a failing handle is dropped and the service
\* falls back to dummy mode
PredictFinishResetting(w) ==
    /\ Serving
    /\ inflight[w] # NoBody
    /\ \E r \in ModelResults :
         /\ last' = CASE r.kind = "raise" ->
                          HandleException(inflight[w], r.exc, "model", "invocation")
                     [] r.kind = "dataframe" ->
                          HandleException(inflight[w], "TypeError", "model", "response")
                     [] OTHER ->
                          Success(inflight[w], "model", r.rows, r.cols)
         /\ model' = IF r.kind = "raise" THEN NoneModel ELSE model
         /\ model_version' = IF r.kind = "raise" THEN StrDummy ELSE model_version
    /\ inflight' = [inflight EXCEPT ![w] = NoBody]
    /\ UNCHANGED <<pc, calls>>

\* predict() from the return of model.predict to its response
PredictFinish(w) ==
    /\ Serving
    /\ inflight[w] # NoBody
    /\ \E r \in ModelResults :
         last' = CASE r.kind = "raise" ->
                        HandleException(inflight[w], r.exc, "model", "invocation")
                   [] r.kind = "dataframe" ->
                        HandleException(inflight[w], "TypeError", "model", "response")
                   [] OTHER ->
                        Success(inflight[w], "model", r.rows, r.cols)
    /\ inflight' = [inflight EXCEPT ![w] = NoBody]
    /\ UNCHANGED <<pc, model, model_version, calls>>

\* health_check()
HealthCheck ==
    /\ Serving
    /\ last' = Response("health", NoBody, 200, "", model_version,
                        IF model # NoneModel THEN "loaded" ELSE "dummy", "response", "", -1, -1)
    /\ UNCHANGED <<pc, model, model_version, calls, inflight>>

\* model_info()
ModelInfo ==
    /\ Serving
    /\ last' = Response("info", NoBody, 200, "", model_version,
                        IF model # NoneModel THEN "loaded" ELSE "dummy", "response", "", -1, -1)
    /\ UNCHANGED <<pc, model, model_version, calls, inflight>>

\* get_metrics()
GetMetrics ==
    /\ Serving
    /\ last' = Response("metrics", NoBody, 204, "", NoVersion, "", "response", "", -1, -1)
    /\ UNCHANGED <<pc, model, model_version, calls, inflight>>

----------------------------------------------------------------------------
(* The program *)

\* ModelLoader.__init__, line 204; load_model() is about to be called
Init ==
    /\ pc = "load_production"
    /\ model = NoneModel
    /\ model_version = StrNone
    /\ calls = <<>>
    /\ inflight = [w \in Workers |-> NoBody]
    /\ last = NoResponse

Next ==
    \/ LoadProductionModel
    \/ LabelProductionModel
    \/ LoadLatestModel
    \/ LabelLatestModel
    \/ DummyFallback
    \/ \E w \in Workers, b \in Bodies : PredictBegin(w, b)
    \/ \E w \in Workers : PredictFinish(w)
    \/ HealthCheck
    \/ ModelInfo
    \/ GetMetrics

Spec == Init /\ [][Next]_vars

----------------------------------------------------------------------------
(* Vocabulary of the properties *)

Attempted(op) == \E i \in 1..Len(calls) : calls[i].op = op
Succeeded(op) == \E i \in 1..Len(calls) : calls[i].op = op /\ calls[i].ok
Failed(op) == \E i \in 1..Len(calls) : calls[i].op = op /\ ~calls[i].ok

\* the run whose artifact was loaded, NoRun when none was
LoadedRun ==
    IF Succeeded("load_run")
    THEN calls[CHOOSE i \in 1..Len(calls) : calls[i].op = "load_run" /\ calls[i].ok].run
    ELSE NoRun

\* the resolution outcomes of the specification
Production == model = ProductionModel /\ model_version = StrProduction
LatestRun == model = RunModel /\ \E r \in RunIds : model_version = Prefix(r, VersionPrefixLen)
Unavailable == model = NoneModel /\ model_version = StrDummy

Loading ==
    pc \in {"load_production", "label_production", "load_latest", "label_latest",
            "dummy_fallback"}

\* the last exchange was a /predict call
Predicted == last.endpoint = "predict"

\* the last /predict body was parsed to a mapping
ParsedMapping(b) == GetJsonError(b) = "" /\ b.top = "map"

\* v is a list of rows of equal length whose elements are all numbers
RectNumeric(v) ==
    /\ v.k = "list"
    /\ \A i \in 1..Len(v.items) :
         /\ v.items[i].k = "list"
         /\ Len(v.items[i].items) = Len(v.items[1].items)
         /\ \A j \in 1..Len(v.items[i].items) : v.items[i].items[j].k = "num"

\* the number of rows of a list of rows
RowsOf(v) == Len(v.items)

----------------------------------------------------------------------------
(* C1: load_model() never raises and always completes, and when it has     *)
(* returned exactly one of the outcomes Production, LatestRun, Unavailable  *)
(* holds, decided by which collaborator calls succeeded: Production when    *)
(* the production load succeeded, LatestRun when the run artifact load      *)
(* succeeded, Unavailable in every other combination of failures.           *)
C1_LoadModelTotal ==
    /\ pc # "crashed"
    /\ Loading => ENABLED (\/ LoadProductionModel \/ LabelProductionModel
                           \/ LoadLatestModel \/ LabelLatestModel
                           \/ DummyFallback)
    /\ pc = "serving" =>
         /\ Production <=> Succeeded("load_production")
         /\ LatestRun <=> Succeeded("load_run")
         /\ Unavailable <=> ~Succeeded("load_production") /\ ~Succeeded("load_run")
         /\ Cardinality({o \in {"P", "L", "U"} :
                           \/ o = "P" /\ Production
                           \/ o = "L" /\ LatestRun
                           \/ o = "U" /\ Unavailable}) = 1

\* every tier failed, the last one in the artifact load of a run that was found
C1_Witness ==
    /\ pc = "serving"
    /\ Unavailable
    /\ Failed("load_production")
    /\ Failed("load_run")

(* C2: the tiers are tried in order and short-circuit: the production load  *)
(* is the first call and is made once; the run search is made only after    *)
(* the production load has failed; the artifact load only after a search    *)
(* that found a run; after a successful production load nothing else is     *)
(* called.                                                                  *)
C2_TierShortCircuit ==
    /\ Len(calls) > 0 => calls[1].op = "load_production"
    /\ \A i \in 2..Len(calls) : calls[i].op # "load_production"
    /\ Succeeded("load_production") => Len(calls) = 1
    /\ \A i \in 1..Len(calls) :
         calls[i].op = "search_runs" => i = 2 /\ ~calls[1].ok
    /\ \A i \in 1..Len(calls) :
         calls[i].op = "load_run" =>
            /\ i = 3
            /\ calls[2].op = "search_runs" /\ calls[2].ok /\ calls[2].run = calls[i].run
    /\ pc = "serving" /\ model = ProductionModel => ~Attempted("search_runs")

\* the first tier succeeded and load_model() has returned
C2_Witness ==
    /\ pc = "serving"
    /\ calls = << Call("load_production", TRUE, NoRun) >>

(* C3: once load_model() has returned, model_version is "production"       *)
(* exactly when the production model is the handle, the first 8 characters  *)
(* of the loaded run's id exactly when the run model is the handle, and     *)
(* "dummy" exactly when there is no handle; it is never "none", and every   *)
(* response that carries a label carries that one.                          *)
C3_VersionLabel ==
    /\ pc = "serving" =>
         /\ model_version = StrProduction <=> model = ProductionModel
         /\ model = RunModel <=>
              /\ LoadedRun # NoRun
              /\ model_version = SubSeq(LoadedRun, 1, VersionPrefixLen)
         /\ model = RunModel => Len(model_version) = VersionPrefixLen
         /\ model_version = StrDummy <=> model = NoneModel
         /\ model_version # StrNone
    /\ last.model_version # NoVersion =>
         /\ last.model_version # StrNone
         /\ last.model_version = model_version

\* a /predict response carrying the label of a run model
C3_Witness ==
    /\ model = RunModel
    /\ Predicted /\ last.status = 200
    /\ last.model_version = SubSeq(LoadedRun, 1, VersionPrefixLen)

(* C4: after startup no request changes model or model_version, whatever    *)
(* the interleaving of handlers and whether they succeed or fail, and every *)
(* /predict 200 response carries that model_version.                        *)
C4_RequestsFrameModel ==
    /\ [][pc = "serving" => model' = model /\ model_version' = model_version]_vars
    /\ [](Predicted /\ last.status = 200 => last.model_version = model_version)

\* a /predict call failed in the handle while another call is in flight
C4_Witness ==
    /\ Predicted /\ last.stage = "invocation"
    /\ \E w \in Workers : inflight[w] # NoBody
    /\ model # NoneModel

(* C5: every /predict request whose parsed body is a mapping without the    *)
(* key `sequences`, the empty mapping {} included, is answered 400 with     *)
(* error_type "MissingField".                                               *)
C5_MissingField ==
    Predicted /\ ParsedMapping(last.body) /\ "sequences" \notin last.body.keys
        => last.status = 400 /\ last.error_type = "MissingField"

(* C6: every /predict request with an empty or absent body, or with a body *)
(* that cannot be parsed, is answered 400 with error_type "MissingData",    *)
(* never with a 500 or any other error_type.  (Stated for the bodies that   *)
(* get_json cannot parse at all; a parsed list, string or number, which is  *)
(* no mapping either, is left out of the statement.)                        *)
C6_MissingData ==
    Predicted /\ last.body.top \in {"empty", "garbage"}
        => last.status = 400 /\ last.error_type = "MissingData"

(* C7: every /predict request whose `sequences` is not a rectangular 2-D    *)
(* numeric matrix is answered 400, with error_type "ValueError" when the    *)
(* coercion to a numeric array fails and "InvalidDimension" when the        *)
(* coerced array is not 2-D; none is answered 200 or 500.                   *)
C7_InvalidMatrixRejected ==
    Predicted /\ ParsedMapping(last.body) /\ "sequences" \in last.body.keys
              /\ ~RectNumeric(last.body.seq)
        => /\ last.status = 400
           /\ last.error_type \in {"ValueError", "InvalidDimension"}
           /\ NpArrayError(last.body.seq) # "" => last.error_type = "ValueError"
           /\ NpArrayError(last.body.seq) = "" => last.error_type = "InvalidDimension"

(* C8: when a validated request's call of the handle's predict fails, the   *)
(* response is a 500 whose error_type is the name of the failure's class,   *)
(* whatever the class, ValueError and KeyError included; never a 400.       *)
C8_InvocationFailureIs500 ==
    Predicted /\ last.stage = "invocation"
        => last.status = 500 /\ last.error_type = last.exc

(* C9: when resolution ended Unavailable, every /predict request carrying   *)
(* a rectangular numeric matrix of N rows, N >= 0, is answered 200 with     *)
(* predictions of N rows of length 24 and model_version "dummy".            *)
C9_DummyPathTotal ==
    Predicted /\ model = NoneModel /\ ParsedMapping(last.body)
              /\ "sequences" \in last.body.keys /\ RectNumeric(last.body.seq)
        => /\ last.status = 200
           /\ last.rows = RowsOf(last.body.seq)
           /\ last.cols = OutputSteps
           /\ last.model_version = StrDummy

(* C10 as claimed: in every /predict 200 response the number of rows of     *)
(* `predictions` equals the number of rows of the request's `sequences`, on *)
(* the model path and on the dummy path, whatever the handle returns.       *)
C10_RowsPreservedEverywhere ==
    Predicted /\ last.status = 200 => last.rows = RowsOf(last.body.seq)

(* C10 as amended: in every /predict 200 response produced on the dummy     *)
(* path `predictions` has as many rows as the request's `sequences`, each   *)
(* of length 24; a 200 response on the model path is produced only for a    *)
(* matrix of at least one row by a resolved handle, and carries the         *)
(* handle's output with its row count unchecked.                            *)
C10_RowsPreservedOnDummyPath ==
    Predicted /\ last.status = 200 =>
        /\ Len(Shape(last.body.seq)) = 2
        /\ last.path \in {"dummy", "model"}
        /\ last.path = "dummy" =>
             /\ last.rows = RowsOf(last.body.seq)
             /\ last.cols = OutputSteps
        /\ last.path = "model" =>
             /\ RowsOf(last.body.seq) > 0
             /\ model # NoneModel

\* a dummy-path response for a matrix of more than one row
C10_Witness ==
    /\ Predicted /\ last.status = 200 /\ last.path = "dummy"
    /\ RowsOf(last.body.seq) = MaxRows
    /\ last.rows = MaxRows

(* C11: in a serving process load_model() runs exactly once and has         *)
(* returned before any request is handled: every request is handled in a    *)
(* fully resolved state (one of Production, LatestRun, Unavailable, never a *)
(* handle without its label nor the label "none"), each collaborator call   *)
(* of the resolution was made at most once, and once serving no request,    *)
(* failing or not, makes the process resolve again.                         *)
C11_ResolveOnceBeforeServing ==
    /\ [](last.endpoint # "none" \/ (\E w \in Workers : inflight[w] # NoBody)
            => /\ pc = "serving"
               /\ Production \/ LatestRun \/ Unavailable)
    /\ [](last.endpoint \in {"health", "info"}
            => /\ last.model_version = model_version
               /\ last.model_version # StrNone
               /\ last.path = "loaded" <=> model # NoneModel)
    /\ [](pc = "serving"
            => /\ Cardinality({i \in 1..Len(calls) : calls[i].op = "load_production"}) = 1
               /\ Cardinality({i \in 1..Len(calls) : calls[i].op = "search_runs"}) <= 1
               /\ Cardinality({i \in 1..Len(calls) : calls[i].op = "load_run"}) <= 1)
    /\ [][pc = "serving" => pc' = "serving" /\ calls' = calls]_vars

\* a request failed in the handle of a run model, and the process still serves
\* with the resolution it made at startup
C11_Witness ==
    /\ pc = "serving"
    /\ LatestRun
    /\ Len(calls) = 3
    /\ Predicted /\ last.status = 500 /\ last.path = "model"

\* the request with body b passed validation, a handle was resolved and the
\* matrix has at least one row
Eligible(b) ==
    /\ Validate(b).t = "ok"
    /\ model # NoneModel
    /\ Validate(b).shape[1] > 0

(* C12: in /predict the handle is invoked exactly when the request passed   *)
(* validation, a handle was resolved and the matrix has at least one row;   *)
(* it is invoked once per request, with the validated matrix, and the       *)
(* response is for that matrix.  A request that passed validation without   *)
(* being eligible is served by the dummy generator, and a request that      *)
(* failed validation by neither.                                            *)
C12_HandleInvokedWhenEligible ==
    /\ [](\A w \in Workers : inflight[w] # NoBody => Eligible(inflight[w]))
    /\ [](Predicted =>
            /\ last.path = "model" <=> Eligible(last.body)
            /\ last.path = "dummy" <=>
                 Validate(last.body).t = "ok" /\ ~Eligible(last.body)
            /\ last.path = "" <=> Validate(last.body).t # "ok")
    /\ [][\A w \in Workers :
            inflight[w] # NoBody =>
               /\ inflight'[w] \in {inflight[w], NoBody}
               /\ inflight'[w] = NoBody =>
                    last'.body = inflight[w] /\ last'.path = "model"]_vars

\* the handle answered a request of MaxRows rows while it is invoked for another
C12_Witness ==
    /\ Predicted /\ last.path = "model" /\ last.status = 200
    /\ RowsOf(last.body.seq) = MaxRows
    /\ \E w \in Workers : inflight[w] # NoBody

====
